---- MODULE Spec2Model ----
(***************************************************************************)
(* A model of notebooks/python/wofost_utils.py: the retry wrapper around   *)
(* the Earth Engine region download, the ERA5 weather cache               *)
(* (get_era5_gee), the hourly series it builds, the JASMIN look-up         *)
(* (get_ensemble_jasmin) and the ensemble driver (create_ensemble with    *)
(* its parallel wofost_parameter_sweep_func workers).                      *)
(*                                                                         *)
(* The file is modelled as five state machines over disjoint groups of     *)
(* variables; each has its own specification (SpecRetry, SpecEra5,         *)
(* SpecSeries, SpecJasmin, SpecEnsemble).                                  *)
(***************************************************************************)
EXTENDS Integers, Sequences, FiniteSets, TLC

VARIABLES
    \* ---- download_image_over_region under @retry (SpecRetry)
    r_image,      \* the image the call is for
    r_pc,         \* "call" | "returned" | "raised"
    r_tries,      \* _tries of the retry loop
    r_delay,      \* _delay of the retry loop, seconds
    r_outcomes,   \* outcome of every attempt so far, in order
    r_sleeps,     \* every time.sleep() made so far, in order
    r_result,     \* what the call returned
    \* ---- get_era5_gee and the csv cache (SpecEra5)
    e_fs,         \* the csv files on disk: path -> content
    e_pc,         \* "idle" | "pool" | "write"
    e_args,       \* [year, lat, lon, dest] of the running call
    e_dl,         \* pool.map: image -> "run" | "ok" | "raised"
    e_issued,     \* images whose download the running call has issued
    e_out,        \* outcome of the last finished call
    e_calls,      \* number of calls started
    e_hist,       \* log of finished calls
    \* ---- the hourly series of get_era5_gee (SpecSeries)
    s_year,       \* the year asked for
    s_ret,        \* the merged download dictionary
    s_pc,         \* "loop" | "reshape" | "frame" | "done" | "raised"
    s_para_vals,  \* para_vals: one list of slots per parameter done
    s_daily,      \* the six daily aggregates
    s_df,         \* the day table handed to write_pcse_csv
    \* ---- get_ensemble_jasmin (SpecJasmin)
    j_req,        \* [year, lat, lon] asked for
    j_links,      \* the '.npz' hrefs of the listing still to be scanned
    j_listing,    \* every href of the listing, in order
    j_pc,         \* "get" | "scan" | "fetch" | "done" | "raised"
    j_link_url,   \* link_url
    j_requests,   \* HTTP requests made so far
    j_ret,        \* the value returned
    \* ---- create_ensemble and its workers (SpecEnsemble)
    c_args,       \* [year, lat, lon, en_size]
    c_env,        \* the world: local files, remote listing, csv cache, prior table
    c_pc,         \* position in create_ensemble
    c_events,     \* external effects so far, in order
    c_z_start,    \* z_start[j][i]
    c_ens,        \* ensemble_parameters
    c_w,          \* per worker: its position and locals
    c_file,       \* content of data/temporal.amgt
    c_results,    \* per worker: the value it returned
    c_retval,     \* retval: what get_ensemble_jasmin returned
    c_ret         \* what create_ensemble returned

varsRetry == <<r_image, r_pc, r_tries, r_delay, r_outcomes, r_sleeps, r_result>>
varsEra5 == <<e_fs, e_pc, e_args, e_dl, e_issued, e_out, e_calls, e_hist>>
varsSeries == <<s_year, s_ret, s_pc, s_para_vals, s_daily, s_df>>
varsJasmin == <<j_req, j_links, j_listing, j_pc, j_link_url, j_requests, j_ret>>
varsEnsemble == <<c_args, c_env, c_pc, c_events, c_z_start, c_ens, c_w, c_file,
                  c_results, c_retval, c_ret>>
vars == <<varsRetry, varsEra5, varsSeries, varsJasmin, varsEnsemble>>

None == "None"
NoneRec == [kind |-> "None"]
\* Values a slot of data can hold: a number n, None, NaN.
Num(n) == << "num", n >>
NoneVal == << "None" >>
NaN == << "nan" >>

not_Retry == <<varsEra5, varsSeries, varsJasmin, varsEnsemble>>
not_Era5 == <<varsRetry, varsSeries, varsJasmin, varsEnsemble>>
not_Series == <<varsRetry, varsEra5, varsJasmin, varsEnsemble>>
not_Jasmin == <<varsRetry, varsEra5, varsSeries, varsEnsemble>>
not_Ensemble == <<varsRetry, varsEra5, varsSeries, varsJasmin>>


-----------------------------------------------------------------------------
(* The seven images get_era5_gee downloads: six weather parameters and the *)
(* elevation.                                                              *)

parameters ==
    << "dewpoint_temperature_2m",
       "temperature_2m",
       "surface_solar_radiation_downwards_hourly",
       "total_precipitation_hourly",
       "u_component_of_wind_10m",
       "v_component_of_wind_10m" >>

Range(s) == {s[k] : k \in DOMAIN s}

images == parameters \o << "elevation" >>

-----------------------------------------------------------------------------
(* download_image_over_region, decorated @retry(tries=10, delay=1,         *)
(* backoff=2): call; on an exception count the try, re-raise when none is  *)
(* left, otherwise sleep _delay and multiply it by backoff.                *)

Tries == 10
Delay == 1
Backoff == 2

\* A faulty variant: the delay grows by the backoff instead of by its factor.
NextDelayAdditive(d) == d + Backoff

NextDelay(d) == d * Backoff

InitRetry ==
    /\ r_image \in Range(images)
    /\ r_pc = "call"
    /\ r_tries = Tries
    /\ r_delay = Delay
    /\ r_outcomes = <<>>
    /\ r_sleeps = <<>>
    /\ r_result = None
    \* the variables of the other state machines are not used
    /\ e_fs = <<>> /\ e_pc = "off" /\ e_args = NoneRec /\ e_dl = <<>>
    /\ e_issued = {} /\ e_out = NoneRec /\ e_calls = 0 /\ e_hist = <<>>
    /\ s_year = 0 /\ s_ret = None /\ s_pc = "off" /\ s_para_vals = <<>>
    /\ s_daily = <<>> /\ s_df = <<>>
    /\ j_req = None /\ j_links = <<>> /\ j_listing = <<>> /\ j_pc = "off"
    /\ j_link_url = None /\ j_requests = <<>> /\ j_ret = None
    /\ c_args = NoneRec /\ c_env = NoneRec /\ c_pc = "off" /\ c_events = <<>>
    /\ c_z_start = <<>> /\ c_ens = <<>> /\ c_w = <<>> /\ c_file = NoneRec
    /\ c_results = <<>> /\ c_retval = NoneRec /\ c_ret = NoneRec

\* image.reduceRegion(...).getInfo() returns: the wrapper returns its value.
AttemptReturns ==
    /\ r_pc = "call"
    /\ r_tries > 0
    /\ r_outcomes' = Append(r_outcomes, "ok")
    /\ r_result' = [image |-> r_image, attempt |-> Len(r_outcomes) + 1]
    /\ r_pc' = "returned"
    /\ UNCHANGED <<r_image, r_tries, r_delay, r_sleeps>>
    /\ UNCHANGED not_Retry

\* getInfo() raises: _tries -= 1; if not _tries: raise; sleep; _delay *= backoff.
AttemptRaises ==
    /\ r_pc = "call"
    /\ r_tries > 0
    /\ r_outcomes' = Append(r_outcomes, "err")
    /\ r_tries' = r_tries - 1
    /\ IF r_tries - 1 = 0
         THEN /\ r_pc' = "raised"
              /\ UNCHANGED <<r_delay, r_sleeps>>
         ELSE /\ r_pc' = "call"
              /\ r_sleeps' = Append(r_sleeps, r_delay)
              /\ r_delay' = NextDelay(r_delay)
    /\ UNCHANGED <<r_image, r_result>>
    /\ UNCHANGED not_Retry

NextRetry ==
    \/ AttemptReturns
    \/ AttemptRaises

SpecRetry == InitRetry /\ [][NextRetry]_vars

\* C2: download_image_over_region is attempted at most 10 times per call; the
\* first successful attempt ends the call with that attempt's result; the wait
\* after failed attempt k (k < 10) is 2^(k-1) seconds; when the 10th attempt
\* fails the call raises.
C2_RetryPolicy ==
    /\ Len(r_outcomes) <= 10
    /\ \A k \in 1 .. Len(r_outcomes) - 1 : r_outcomes[k] = "err"
    /\ (r_pc = "returned") <=>
          (r_outcomes # <<>> /\ r_outcomes[Len(r_outcomes)] = "ok")
    /\ r_pc = "returned" =>
          r_result = [image |-> r_image, attempt |-> Len(r_outcomes)]
    /\ (r_pc = "raised") <=>
          (Len(r_outcomes) = 10 /\ \A k \in 1 .. 10 : r_outcomes[k] = "err")
    /\ r_pc = "call" => Len(r_sleeps) = Len(r_outcomes)
    /\ r_pc = "raised" => Len(r_sleeps) = 9
    /\ r_pc = "returned" => Len(r_sleeps) = Len(r_outcomes) - 1
    /\ \A k \in 1 .. Len(r_sleeps) : k < 10 /\ r_sleeps[k] = 2 ^ (k - 1)

C2_Witness ==
    \/ r_pc = "raised" /\ Len(r_sleeps) = 9 /\ r_sleeps[9] = 256
    \/ r_pc = "returned" /\ Len(r_outcomes) = 4 /\ r_sleeps = <<1, 2, 4>>

-----------------------------------------------------------------------------
(* get_era5_gee: the csv cache.  Latitudes and longitudes are held in      *)
(* thousandths of a degree; "%.02f" rounds them to hundredths.             *)

MaxCalls == 3

\* "%.02f" % x, for x in thousandths: the nearest hundredth.  (A third
\* decimal of 5 is decided by the binary value of the float; it is given
\* to the even side here, and no request of the model has one.)
Fmt2(x) ==
    LET lo == x \div 10
        r == x - 10 * lo
    IN  IF r < 5 THEN lo
        ELSE IF r > 5 THEN lo + 1
        ELSE IF lo % 2 = 0 THEN lo ELSE lo + 1

\* Path(dest_folder) / f"{product}_{country}_{lat_str}_{lon_str}_{year}.csv"
csv_file(year, lat, lon, dest_folder) ==
    << dest_folder, "ERA5", "Somewhere", Fmt2(lat), Fmt2(lon), year, ".csv" >>

\* The calls made of get_era5_gee: two of them differ only in the third
\* decimal of the latitude.
Era5Requests ==
    { [year |-> 2020, lat |-> 8200, lon |-> -2700, dest |-> "./"],
      [year |-> 2020, lat |-> 8204, lon |-> -2700, dest |-> "./"],
      [year |-> 2021, lat |-> 8200, lon |-> -2700, dest |-> "./"] }

PathOf(a) == csv_file(a.year, a.lat, a.lon, a.dest)

InitEra5 ==
    /\ e_fs = <<>>
    /\ e_pc = "idle"
    /\ e_args = NoneRec
    /\ e_dl = <<>>
    /\ e_issued = {}
    /\ e_out = NoneRec
    /\ e_calls = 0
    /\ e_hist = <<>>
    \* the variables of the other state machines are not used
    /\ r_image = None /\ r_pc = "off" /\ r_tries = 0 /\ r_delay = 0
    /\ r_outcomes = <<>> /\ r_sleeps = <<>> /\ r_result = None
    /\ s_year = 0 /\ s_ret = None /\ s_pc = "off" /\ s_para_vals = <<>>
    /\ s_daily = <<>> /\ s_df = <<>>
    /\ j_req = None /\ j_links = <<>> /\ j_listing = <<>> /\ j_pc = "off"
    /\ j_link_url = None /\ j_requests = <<>> /\ j_ret = None
    /\ c_args = NoneRec /\ c_env = NoneRec /\ c_pc = "off" /\ c_events = <<>>
    /\ c_z_start = <<>> /\ c_ens = <<>> /\ c_w = <<>> /\ c_file = NoneRec
    /\ c_results = <<>> /\ c_retval = NoneRec /\ c_ret = NoneRec

Put(f, k, v) == [x \in DOMAIN f \cup {k} |-> IF x = k THEN v ELSE f[x]]

HistEntry(a, kind, before, after, issued, complete) ==
    [ path |-> PathOf(a), args |-> a, kind |-> kind, before |-> before,
      after |-> after, issued |-> issued, complete |-> complete ]

\* A faulty variant: the cache test never succeeds.
Exists_Never(fs, path) == FALSE

\* if csv_file.exists(): return csv_file
Exists(fs, path) == path \in DOMAIN fs

\* get_era5_gee(year, lat, lon, dest_folder) up to pool.map: either the
\* early return, or the seven downloads are handed to the pool.
Era5Call(a) ==
    /\ e_pc = "idle"
    /\ e_calls < MaxCalls
    /\ e_calls' = e_calls + 1
    /\ e_args' = a
    /\ IF Exists(e_fs, PathOf(a))
         THEN /\ e_out' = [kind |-> "returned", path |-> PathOf(a)]
              /\ e_hist' = Append(e_hist,
                     HistEntry(a, "cached", e_fs, e_fs, {}, FALSE))
              /\ UNCHANGED <<e_fs, e_pc, e_dl, e_issued>>
         ELSE /\ e_pc' = "pool"
              /\ e_dl' = [img \in Range(images) |-> "run"]
              /\ e_issued' = Range(images)
              /\ e_out' = NoneRec
              /\ UNCHANGED <<e_fs, e_hist>>
    /\ UNCHANGED not_Era5

\* A pool worker's download_image_over_region returns (within its 10 tries).
DownloadReturns(img) ==
    /\ e_pc = "pool"
    /\ e_dl[img] = "run"
    /\ e_dl' = [e_dl EXCEPT ![img] = "ok"]
    /\ UNCHANGED <<e_fs, e_pc, e_args, e_issued, e_out, e_calls, e_hist>>
    /\ UNCHANGED not_Era5

\* A pool worker's download_image_over_region raises (its 10th try failed).
DownloadRaises(img) ==
    /\ e_pc = "pool"
    /\ e_dl[img] = "run"
    /\ e_dl' = [e_dl EXCEPT ![img] = "raised"]
    /\ UNCHANGED <<e_fs, e_pc, e_args, e_issued, e_out, e_calls, e_hist>>
    /\ UNCHANGED not_Era5

\* A faulty variant: a failed download is swallowed.
PoolMapRaises_Swallowed(dl) == FALSE

\* pool.map returns once every task has ended, and re-raises a task's error.
PoolMapRaises(dl) == \E img \in DOMAIN dl : dl[img] = "raised"

PoolMapEnds ==
    /\ e_pc = "pool"
    /\ \A img \in DOMAIN e_dl : e_dl[img] # "run"
    /\ IF PoolMapRaises(e_dl)
         THEN /\ e_pc' = "idle"
              /\ e_out' = [kind |-> "raised", path |-> PathOf(e_args)]
              /\ e_hist' = Append(e_hist,
                     HistEntry(e_args, "raised", e_fs, e_fs, e_issued, FALSE))
              /\ e_dl' = <<>>
              /\ e_issued' = {}
         ELSE /\ e_pc' = "write"
              /\ UNCHANGED <<e_out, e_hist, e_dl, e_issued>>
    /\ UNCHANGED <<e_fs, e_args, e_calls>>
    /\ UNCHANGED not_Era5

\* The rest of get_era5_gee: the day table is built and write_pcse_csv
\* writes it (header with lon, lat, elev; then the rows).
WritePcseCsv ==
    /\ e_pc = "write"
    /\ LET content == [ lon |-> e_args.lon, lat |-> e_args.lat,
                        year |-> e_args.year, call |-> e_calls,
                        complete |-> \A img \in DOMAIN e_dl : e_dl[img] = "ok" ]
           after == Put(e_fs, PathOf(e_args), content)
       IN  /\ e_fs' = after
           /\ e_hist' = Append(e_hist,
                  HistEntry(e_args, "written", e_fs, after, e_issued,
                            content.complete))
    /\ e_out' = [kind |-> "returned", path |-> PathOf(e_args)]
    /\ e_pc' = "idle"
    /\ e_dl' = <<>>
    /\ e_issued' = {}
    /\ UNCHANGED <<e_args, e_calls>>
    /\ UNCHANGED not_Era5

NextEra5 ==
    \/ \E a \in Era5Requests : Era5Call(a)
    \/ \E img \in Range(images) : DownloadReturns(img)
    \/ \E img \in Range(images) : DownloadRaises(img)
    \/ PoolMapEnds
    \/ WritePcseCsv

SpecEra5 == InitEra5 /\ [][NextEra5]_vars

\* C4: get_era5_gee returns <dest_folder>/ERA5_Somewhere_<lat .2f>_<lon .2f>_
\* <year>.csv; when a file is already at that path the call returns the path
\* at once, with no download and the files unchanged, whatever else differs
\* (here: the third decimal of the latitude).
C4_CachedReturn ==
    /\ e_pc = "idle" /\ e_out.kind = "returned" =>
          e_out.path = << e_args.dest, "ERA5", "Somewhere",
                          Fmt2(e_args.lat), Fmt2(e_args.lon), e_args.year,
                          ".csv" >>
    /\ \A k \in DOMAIN e_hist :
          LET h == e_hist[k]
          IN  h.path \in DOMAIN h.before =>
                 /\ h.kind = "cached"
                 /\ h.issued = {}
                 /\ h.after = h.before
    /\ e_pc # "idle" => PathOf(e_args) \notin DOMAIN e_fs

\* Reached: a call for latitude 8.204 returned the file a call for 8.200 wrote.
C4_Witness ==
    /\ e_pc = "idle"
    /\ Len(e_hist) >= 2
    /\ e_hist[Len(e_hist)].kind = "cached"
    /\ e_fs[e_hist[Len(e_hist)].path].lat # e_hist[Len(e_hist)].args.lat

\* C10: a csv exists at a path only if some call for that path had all seven
\* downloads succeed; a call with a failed download raises and leaves the
\* files as they were, and every call that finds no file at its path issues
\* the seven downloads.
C10_CsvOnlyAfterCompleteDownload ==
    /\ \A p \in DOMAIN e_fs :
          \E k \in DOMAIN e_hist :
             /\ e_hist[k].path = p
             /\ e_hist[k].kind = "written"
             /\ e_hist[k].complete
             /\ e_hist[k].issued = Range(images)
    /\ \A k \in DOMAIN e_hist :
          LET h == e_hist[k]
          IN  /\ h.kind = "raised" => h.after = h.before
              /\ h.kind = "written" => h.complete
              /\ h.path \notin DOMAIN h.before => h.issued = Range(images)
    /\ e_pc = "idle" /\ e_out.kind = "raised" =>
          e_hist[Len(e_hist)].kind = "raised"
    /\ e_pc = "write" => \A img \in DOMAIN e_dl : e_dl[img] = "ok"

\* Reached: a call raised, the next call for the same path downloaded again
\* and wrote the file.
C10_Witness ==
    /\ Len(e_hist) >= 2
    /\ \E k \in 1 .. Len(e_hist) - 1 :
          /\ e_hist[k].kind = "raised"
          /\ e_hist[k + 1].kind = "written"
          /\ e_hist[k + 1].path = e_hist[k].path
          /\ e_hist[k + 1].issued = Range(images)

-----------------------------------------------------------------------------
(* The calendar arithmetic of datetime, as get_era5_gee uses it.           *)

\* datetime._is_leap
is_leap(y) == y % 4 = 0 /\ (y % 100 # 0 \/ y % 400 = 0)

\* datetime._days_before_year: days before January 1st of year y
days_before_year(y) ==
    LET y1 == y - 1 IN y1 * 365 + y1 \div 4 - y1 \div 100 + y1 \div 400

\* datetime._days_in_month
days_in_month(y, m) ==
    IF m = 2 THEN (IF is_leap(y) THEN 29 ELSE 28)
    ELSE IF m \in {4, 6, 9, 11} THEN 30 ELSE 31

\* datetime._days_before_month
RECURSIVE days_before_month(_, _)
days_before_month(y, m) ==
    IF m = 1 THEN 0 ELSE days_before_month(y, m - 1) + days_in_month(y, m - 1)

\* datetime._ymd2ord
ymd2ord(y, m, d) == days_before_year(y) + days_before_month(y, m) + d

\* datetime._ord2ymd for an ordinal n of year y, as the number YYYYMMDD that
\* strftime("%Y%m%d") prints.
RECURSIVE MonthOf(_, _, _)
MonthOf(y, n, m) ==
    IF n <= days_before_month(y, m) + days_in_month(y, m) THEN m
    ELSE MonthOf(y, n, m + 1)

Ymd(y, n) ==
    LET m == MonthOf(y, n, 1)
    IN  y * 10000 + m * 100 + (n - days_before_month(y, m))

\* A faulty variant: every year has 365 days.
total_days_Always365(year) == 365

\* (dt.datetime(year + 1, 1, 1) - dt.datetime(year, 1, 1)).days
total_days(year) == ymd2ord(year + 1, 1, 1) - ymd2ord(year, 1, 1)

\* (dt.datetime(year, 1, 1) + dt.timedelta(days=i)).strftime("%Y%m%d")
date_str(year, i) == Ymd(year, i + 1)

\* pd.date_range("%d-01-01" % year, "%d-12-31" % year): every day from the
\* first ordinal to the last, both included.
date_range(year) ==
    LET first == ymd2ord(year, 1, 1)
        last == ymd2ord(year, 12, 31)
    IN  [k \in 1 .. (last - first + 1) |-> Ymd(year, k)]

-----------------------------------------------------------------------------
(* The hourly series (get_era5_gee, after the downloads).                  *)
(*                                                                         *)
(* The merged dictionary ret is described by: the year its bands are of,   *)
(* the last date that has bands (the newest year of ERA5 is incomplete),   *)
(* and the hours and parameters whose value is None (a masked pixel).      *)

HoursPerDay == 24

Years == {2000, 2019, 2020, 2100}

Rets(y) ==
    { [year |-> y, until |-> y * 10000 + 1231, nullHours |-> {}, nullParams |-> {}],
      [year |-> y, until |-> y * 10000 + 229, nullHours |-> {}, nullParams |-> {}],
      [year |-> y, until |-> y * 10000 + 100, nullHours |-> {}, nullParams |-> {}],
      [year |-> y, until |-> y * 10000 + 1231, nullHours |-> {0, 23},
       nullParams |-> {"temperature_2m", "u_component_of_wind_10m"}],
      [year |-> y, until |-> y * 10000 + 1230, nullHours |-> 0 .. 23,
       nullParams |-> Range(parameters)] }

\* A key of ret: "%sT%02d_%s" % (date_str, hour, parameter)
header(ds, hour, parameter) == << ds, hour, parameter >>

\* header in available_keys
InKeys(ret, h) ==
    /\ h[1] >= ret.year * 10000 + 101
    /\ h[1] <= ret.until
    /\ h[2] \in 0 .. 23
    /\ h[3] \in Range(parameters)

\* ret[header]
Get(ret, h) ==
    IF h[2] \in ret.nullHours /\ h[3] \in ret.nullParams THEN NoneVal
    ELSE Num(200 + ((h[1] + h[2]) % 100))

\* transforms = dict(zip(parameters, transforms))
transform(parameter, val) ==
    CASE parameter = "dewpoint_temperature_2m" -> << "calculate_hum", val >>
      [] parameter = "temperature_2m" -> << "sub", val, "273.15" >>
      [] parameter = "surface_solar_radiation_downwards_hourly" -> << "div", val, 1000 >>
      [] parameter = "total_precipitation_hourly" -> << "mul", val, 1000 >>
      [] OTHER -> val

\* The body of the hour loop: one slot.
slot(ret, h) ==
    IF InKeys(ret, h)
      THEN (IF Get(ret, h) # NoneVal THEN transform(h[3], Get(ret, h)) ELSE NaN)
      ELSE NaN

\* for hour in range(24): ... vals.append(val)
hour_loop(ret, ds, parameter) ==
    [k \in 1 .. HoursPerDay |-> slot(ret, header(ds, k - 1, parameter))]

\* for i in range(total_days): ... ; the days lo .. hi-1 in order (the
\* range is split in two so that the evaluation stays shallow).
RECURSIVE day_loop(_, _, _, _, _)
day_loop(ret, year, parameter, lo, hi) ==
    IF hi <= lo THEN <<>>
    ELSE IF hi = lo + 1 THEN hour_loop(ret, date_str(year, lo), parameter)
    ELSE LET mid == (lo + hi) \div 2
         IN  day_loop(ret, year, parameter, lo, mid)
                \o day_loop(ret, year, parameter, mid, hi)

InitSeries ==
    /\ s_year \in Years
    /\ s_ret \in Rets(s_year)
    /\ s_pc = "loop"
    /\ s_para_vals = <<>>
    /\ s_daily = <<>>
    /\ s_df = <<>>
    \* the variables of the other state machines are not used
    /\ r_image = None /\ r_pc = "off" /\ r_tries = 0 /\ r_delay = 0
    /\ r_outcomes = <<>> /\ r_sleeps = <<>> /\ r_result = None
    /\ e_fs = <<>> /\ e_pc = "off" /\ e_args = NoneRec /\ e_dl = <<>>
    /\ e_issued = {} /\ e_out = NoneRec /\ e_calls = 0 /\ e_hist = <<>>
    /\ j_req = None /\ j_links = <<>> /\ j_listing = <<>> /\ j_pc = "off"
    /\ j_link_url = None /\ j_requests = <<>> /\ j_ret = None
    /\ c_args = NoneRec /\ c_env = NoneRec /\ c_pc = "off" /\ c_events = <<>>
    /\ c_z_start = <<>> /\ c_ens = <<>> /\ c_w = <<>> /\ c_file = NoneRec
    /\ c_results = <<>> /\ c_retval = NoneRec /\ c_ret = NoneRec

\* One turn of "for parameter in parameters": para_vals.append(vals)
ParameterLoop ==
    /\ s_pc = "loop"
    /\ Len(s_para_vals) < Len(parameters)
    /\ s_para_vals' = Append(s_para_vals,
          day_loop(s_ret, s_year, parameters[Len(s_para_vals) + 1], 0,
                   total_days(s_year)))
    /\ UNCHANGED <<s_year, s_ret, s_pc, s_daily, s_df>>
    /\ UNCHANGED not_Series

\* np.array(para_vals).reshape(6, total_days, 24)[p][d][h], 0-based d and h
Cell(pv, p, d, h) == pv[p][d * HoursPerDay + h + 1]

Valid(pv, p, d) == {h \in 0 .. HoursPerDay - 1 : Cell(pv, p, d, h) # NaN}

\* The reshape and the six daily aggregates; each aggregate is kept as the
\* function applied and the hours of the day it has a number for.
Aggregate ==
    /\ s_pc = "loop"
    /\ Len(s_para_vals) = Len(parameters)
    /\ LET n == total_days(s_year)
           fits == \A p \in DOMAIN s_para_vals :
                      Len(s_para_vals[p]) = n * HoursPerDay
           col(f, p) == [d \in 1 .. n |->
                           [f |-> f, hours |-> Valid(s_para_vals, p, d - 1)]]
           wind == [d \in 1 .. n |->
                      [f |-> "nanmean_sqrt",
                       hours |-> Valid(s_para_vals, 5, d - 1)
                                    \cap Valid(s_para_vals, 6, d - 1)]]
       IN  IF fits
             THEN /\ s_daily' = [ humidity |-> col("max0_nanmean", 1),
                                  temperature_2m_max |-> col("nanmax", 2),
                                  temperature_2m_min |-> col("nanmin", 2),
                                  solar_radiation |-> col("max0_nansum", 3),
                                  total_precipitation |-> col("max0_nansum", 4),
                                  wind |-> wind ]
                  /\ s_pc' = "frame"
             ELSE /\ s_pc' = "raised"
                  /\ UNCHANGED s_daily
    /\ UNCHANGED <<s_year, s_ret, s_para_vals, s_df>>
    /\ UNCHANGED not_Series

\* df = pd.DataFrame(dict(zip(keys, vals))): one row per index, when all
\* seven columns have the same length.
Frame ==
    /\ s_pc = "frame"
    /\ LET days == date_range(s_year)
           same == \A c \in DOMAIN s_daily : Len(s_daily[c]) = Len(days)
       IN  IF same
             THEN /\ s_df' = [k \in 1 .. Len(days) |->
                                [ DAY |-> days[k],
                                  IRRAD |-> s_daily.solar_radiation[k],
                                  TMIN |-> s_daily.temperature_2m_min[k],
                                  TMAX |-> s_daily.temperature_2m_max[k],
                                  VAP |-> s_daily.humidity[k],
                                  WIND |-> s_daily.wind[k],
                                  RAIN |-> s_daily.total_precipitation[k] ]]
                  /\ s_pc' = "done"
             ELSE /\ s_pc' = "raised"
                  /\ UNCHANGED s_df
    /\ UNCHANGED <<s_year, s_ret, s_para_vals, s_daily>>
    /\ UNCHANGED not_Series

NextSeries ==
    \/ ParameterLoop
    \/ Aggregate
    \/ Frame

SpecSeries == InitSeries /\ [][NextSeries]_vars

\* The claim's own reading of the calendar, written without the datetime
\* arithmetic: the length of a year, and the date of its n-th day found by
\* counting forward from January 1st.
ClaimDays(y) ==
    IF (y % 4 = 0 /\ y % 100 # 0) \/ y % 400 = 0 THEN 366 ELSE 365

ClaimMonthLen(y, m) ==
    CASE m \in {1, 3, 5, 7, 8, 10, 12} -> 31
      [] m \in {4, 6, 9, 11} -> 30
      [] OTHER -> ClaimDays(y) - 337

ClaimDates(y) ==
    [k \in 1 .. ClaimDays(y) |->
        LET m == CHOOSE mm \in 1 .. 12 :
                    LET before == IF mm = 1 THEN 0
                                  ELSE ymd2ord(y, mm, 1) - ymd2ord(y, 1, 1)
                    IN  before < k /\ k <= before + ClaimMonthLen(y, mm)
        IN  y * 10000 + m * 100 + (k - (ymd2ord(y, m, 1) - ymd2ord(y, 1, 1)))]

\* C6: each of the six series has total_days * 24 slots (365 or 366 days by
\* leap year), ordered by day then hour; a slot is NaN exactly when its key
\* is absent from the download or its value is None, otherwise it is the
\* parameter's transform of the value; the day table has one row per
\* calendar day of the year.
C6_HourlySeries ==
    LET n == ClaimDays(s_year)
        dates == ClaimDates(s_year)
    IN  /\ s_pc \in {"loop", "frame", "done"}
        /\ \A p \in DOMAIN s_para_vals :
              /\ Len(s_para_vals[p]) = n * 24
              /\ \A d \in 0 .. n - 1 :
                    LET day == dates[d + 1]
                        absent == day > s_ret.until
                    IN  \A h \in 0 .. 23 :
                           LET v == s_para_vals[p][d * 24 + h + 1]
                               null == /\ h \in s_ret.nullHours
                                       /\ parameters[p] \in s_ret.nullParams
                           IN  /\ (v = NaN) <=> (absent \/ null)
                               /\ v # NaN =>
                                     v = transform(parameters[p],
                                            Get(s_ret, << day, h, parameters[p] >>))
        /\ s_pc = "done" =>
              /\ Len(s_df) = n
              /\ \A k \in DOMAIN s_df : s_df[k].DAY = dates[k]
              /\ s_df[1].DAY = s_year * 10000 + 101
              /\ s_df[Len(s_df)].DAY = s_year * 10000 + 1231

\* Reached: a leap year whose bands stop on February 29th; the slot of that
\* day's last hour holds a value and the slot after it is NaN.
C6_Witness ==
    /\ s_pc = "done"
    /\ s_year = 2020
    /\ s_ret.until = 20200229
    /\ Len(s_para_vals[2]) = 8784
    /\ s_para_vals[2][59 * 24 + 23 + 1] = << "sub", Get(s_ret, << 20200229, 23, "temperature_2m" >>), "273.15" >>
    /\ s_para_vals[2][60 * 24 + 1] = NaN
    /\ Len(s_df) = 366

-----------------------------------------------------------------------------
(* get_ensemble_jasmin: the scan of the remote listing.                    *)
(*                                                                         *)
(* An href is held as what the code reads of it: whether it ends with      *)
(* ".npz", and the fields link.split("_") gives.  A field is a word, the   *)
(* text of an integer, or the text of a decimal number (held in            *)
(* hundredths).  Latitudes and longitudes asked for are in thousandths.    *)

MaxLinks == 3

Word(n) == [kind |-> "word", v |-> n]
IntText(n) == [kind |-> "int", v |-> n]
DecText(h) == [kind |-> "dec", v |-> h]

\* "ensMaizeWLLlowest_<year>_<lon>_<lat>_size<size>.npz"
EnsembleHref(year, lon100, lat100, size) ==
    [ npz |-> TRUE,
      fields |-> << Word(0), IntText(year), DecText(lon100), DecText(lat100),
                    Word(size) >> ]

Hrefs ==
    { EnsembleHref(2020, -270, 820, 2),
      EnsembleHref(2020, -270, 820, 500),
      EnsembleHref(2021, -270, 820, 2),
      EnsembleHref(2020, -270, 950, 2),
      [npz |-> TRUE, fields |-> << Word(0) >>],
      [npz |-> TRUE, fields |-> << Word(0), Word(1), DecText(-270),
                                   DecText(820), Word(2) >>],
      [npz |-> FALSE, fields |-> << Word(0) >>] }

Listings ==
    UNION { [1 .. n -> Hrefs] : n \in 0 .. MaxLinks }

JasminRequests ==
    { [year |-> 2020, lat |-> 8200, lon |-> -2700],
      [year |-> 2020, lat |-> 8204, lon |-> -2700] }

\* [a["href"] for a in soup.find_all("a", href=True) if a["href"].endswith(".npz")]
RECURSIVE NpzLinks(_)
NpzLinks(listing) ==
    IF listing = <<>> THEN <<>>
    ELSE IF Head(listing).npz THEN << Head(listing) >> \o NpzLinks(Tail(listing))
    ELSE NpzLinks(Tail(listing))

\* int(text): the text of an integer, or ValueError
IntOk(f) == f.kind = "int"
\* float(text), in thousandths: the text of a number, or ValueError
FloatOk(f) == f.kind \in {"int", "dec"}
FloatOf(f) == IF f.kind = "int" THEN f.v * 1000 ELSE f.v * 10

\* The body of "for link in links", for one link:
\*    _, fyear, flon, flat, size = link.split("_")
\*    if year == int(fyear) and lat == float(flat) and lon == float(flon)
\* "raise" (ValueError), "match" or "skip".
scan_link(link, req) ==
    IF Len(link.fields) # 5 THEN "raise"
    ELSE IF ~IntOk(link.fields[2]) THEN "raise"
    ELSE IF req.year # link.fields[2].v THEN "skip"
    ELSE IF ~FloatOk(link.fields[4]) THEN "raise"
    ELSE IF req.lat # FloatOf(link.fields[4]) THEN "skip"
    ELSE IF ~FloatOk(link.fields[3]) THEN "raise"
    ELSE IF req.lon # FloatOf(link.fields[3]) THEN "skip"
    ELSE "match"

\* np.load of the bytes of a remote ensemble: it has the size it was made with.
RemoteData(link) == [kind |-> "data", source |-> "remote", link |-> link,
                     size |-> link.fields[5].v]

InitJasmin ==
    /\ j_req \in JasminRequests
    /\ j_listing \in Listings
    /\ j_links = <<>>
    /\ j_pc = "get"
    /\ j_link_url = NoneRec
    /\ j_requests = <<>>
    /\ j_ret = NoneRec
    \* the variables of the other state machines are not used
    /\ r_image = None /\ r_pc = "off" /\ r_tries = 0 /\ r_delay = 0
    /\ r_outcomes = <<>> /\ r_sleeps = <<>> /\ r_result = None
    /\ e_fs = <<>> /\ e_pc = "off" /\ e_args = NoneRec /\ e_dl = <<>>
    /\ e_issued = {} /\ e_out = NoneRec /\ e_calls = 0 /\ e_hist = <<>>
    /\ s_year = 0 /\ s_ret = None /\ s_pc = "off" /\ s_para_vals = <<>>
    /\ s_daily = <<>> /\ s_df = <<>>
    /\ c_args = NoneRec /\ c_env = NoneRec /\ c_pc = "off" /\ c_events = <<>>
    /\ c_z_start = <<>> /\ c_ens = <<>> /\ c_w = <<>> /\ c_file = NoneRec
    /\ c_results = <<>> /\ c_retval = NoneRec /\ c_ret = NoneRec

\* html = requests.get(base_url).content; links = [...]
GetListing ==
    /\ j_pc = "get"
    /\ j_requests' = Append(j_requests, "listing")
    /\ j_links' = NpzLinks(j_listing)
    /\ j_pc' = "scan"
    /\ UNCHANGED <<j_req, j_listing, j_link_url, j_ret>>
    /\ UNCHANGED not_Jasmin

\* One turn of "for link in links", or the end of the loop with link_url
\* still None: return None.
ScanLink ==
    /\ j_pc = "scan"
    /\ IF j_links = <<>>
         THEN /\ j_pc' = "done"
              /\ j_ret' = NoneRec
              /\ UNCHANGED <<j_links, j_link_url>>
         ELSE LET r == scan_link(Head(j_links), j_req)
              IN  /\ j_pc' = CASE r = "raise" -> "raised"
                               [] r = "match" -> "fetch"
                               [] OTHER -> "scan"
                  /\ j_link_url' = IF r = "match" THEN Head(j_links) ELSE j_link_url
                  /\ j_links' = IF r = "skip" THEN Tail(j_links) ELSE j_links
                  /\ UNCHANGED j_ret
    /\ UNCHANGED <<j_req, j_listing, j_requests>>
    /\ UNCHANGED not_Jasmin

\* r = requests.get(f"{base_url}/{link_url}", stream=True); return np.load(...)
FetchLink ==
    /\ j_pc = "fetch"
    /\ j_requests' = Append(j_requests, "link")
    /\ j_ret' = RemoteData(j_link_url)
    /\ j_pc' = "done"
    /\ UNCHANGED <<j_req, j_listing, j_links, j_link_url>>
    /\ UNCHANGED not_Jasmin

NextJasmin ==
    \/ GetListing
    \/ ScanLink
    \/ FetchLink

SpecJasmin == InitJasmin /\ [][NextJasmin]_vars

\* What the claim calls a link whose year, longitude and latitude fields
\* equal the request.
ClaimMatches(link, req) ==
    /\ link.npz
    /\ Len(link.fields) = 5
    /\ link.fields[2] = IntText(req.year)
    /\ FloatOk(link.fields[3]) /\ FloatOf(link.fields[3]) = req.lon
    /\ FloatOk(link.fields[4]) /\ FloatOf(link.fields[4]) = req.lat

ClaimMatchIndexes(listing, req) ==
    {k \in DOMAIN listing : ClaimMatches(listing[k], req)}

Min(S) == CHOOSE x \in S : \A y \in S : x <= y

\* C5: get_ensemble_jasmin returns None exactly when no '.npz' link of the
\* listing has year, longitude and latitude fields equal to the request;
\* otherwise it downloads and returns the first such link in listing order,
\* the links that do not match being skipped.
C5_FirstMatchOrNone ==
    j_pc \in {"done", "raised"} =>
       LET m == ClaimMatchIndexes(j_listing, j_req)
       IN  /\ j_pc = "done"
           /\ (j_ret = NoneRec) <=> (m = {})
           /\ m # {} => j_ret = RemoteData(j_listing[Min(m)])

\* The same, for the runs in which the scan raises no ValueError.
C5_FirstMatchOrNoneUnlessRaised ==
    j_pc = "done" =>
       LET m == ClaimMatchIndexes(j_listing, j_req)
       IN  /\ (j_ret = NoneRec) <=> (m = {})
           /\ m # {} => j_ret = RemoteData(j_listing[Min(m)])

\* Reached: a '.npz' link with a single field stands before the matching link.
C5_RaisedBeforeMatch ==
    /\ j_pc = "raised"
    /\ ClaimMatchIndexes(j_listing, j_req) # {}

-----------------------------------------------------------------------------
(* create_ensemble and the workers of process_map.                         *)
(*                                                                         *)
(* Parameter values are integers (tenths); the abscissae 1.25 and 1.5 of   *)
(* the AMAXTB table are held in hundredths.                                *)

MaxEnSize == 2

\* "ensMaizeWLLlowest_" + f"{year:4d}_{lon:.2f}_{lat:.2f}" + f"_size{en_size:d}.npz"
ensemble_fname(year, lat, lon, en_size) ==
    << "ensMaizeWLLlowest", year, Fmt2(lon), Fmt2(lat), en_size, ".npz" >>

\* np.load(ensemble_fname): a saved ensemble has the size its name gives.
LocalData(fname) == [kind |-> "data", source |-> "local", name |-> fname,
                     size |-> fname[5]]

\* The prior table of define_prior_distribution: PARAM_CODE, Variation and
\* Scale of every row, and the values rvs() may draw for it.
param_list == << "TDWI", "SDOY", "AMAXTB_000", "AMAXTB_150", "SPAN" >>

PriorTables ==
    { [ param_type |-> [TDWI |-> "S", SDOY |-> "S", AMAXTB_000 |-> "T",
                        AMAXTB_150 |-> "T", SPAN |-> "N"],
        param_scale |-> [TDWI |-> 1, SDOY |-> 1, AMAXTB_000 |-> 1,
                         AMAXTB_150 |-> 1, SPAN |-> 1] ],
      [ param_type |-> [TDWI |-> "N", SDOY |-> "S", AMAXTB_000 |-> "S",
                        AMAXTB_150 |-> "S", SPAN |-> "S"],
        param_scale |-> [TDWI |-> 1, SDOY |-> 1, AMAXTB_000 |-> 10,
                         AMAXTB_150 |-> 10, SPAN |-> 2] ] }

Draws(param) ==
    CASE param = "SDOY" -> {600, 1215, 1225}
      [] param = "TDWI" -> {20}
      [] param = "AMAXTB_000" -> {55}
      [] param = "AMAXTB_150" -> {50}
      [] OTHER -> {35}

EnsembleArgs ==
    [ year : {2020, 2021}, lat : {8200}, lon : {-2700}, en_size : 1 .. MaxEnSize ]

EnsembleListings ==
    { <<>>,
      << EnsembleHref(2020, -270, 820, 2) >>,
      << EnsembleHref(2020, -270, 820, 500) >>,
      << EnsembleHref(2020, -270, 950, 2), EnsembleHref(2020, -270, 820, 2) >>,
      << [npz |-> TRUE, fields |-> << Word(0) >>] >> }

LocalFiles(a) ==
    { {},
      { ensemble_fname(a.year, a.lat, a.lon, a.en_size) },
      { ensemble_fname(a.year, a.lat, a.lon, 500) } }

\* get_ensemble_jasmin(year, lat, lon) as a whole: the scan over the '.npz'
\* links, then the download of the link found.
RECURSIVE scan_links(_, _)
scan_links(links, req) ==
    IF links = <<>> THEN NoneRec
    ELSE LET r == scan_link(Head(links), req)
         IN  CASE r = "raise" -> [kind |-> "raise"]
               [] r = "match" -> RemoteData(Head(links))
               [] OTHER -> scan_links(Tail(links), req)

get_ensemble_jasmin(listing, year, lat, lon) ==
    scan_links(NpzLinks(listing), [year |-> year, lat |-> lat, lon |-> lon])

InitEnsemble ==
    /\ c_args \in EnsembleArgs
    /\ c_env \in [ local : LocalFiles(c_args), listing : EnsembleListings,
                   csv : BOOLEAN, table : PriorTables ]
    /\ c_pc = "local"
    /\ c_events = <<>>
    /\ c_z_start = <<>>
    /\ c_ens = <<>>
    /\ c_w = <<>>
    /\ c_file = [kind |-> "absent"]
    /\ c_results = <<>>
    /\ c_retval = NoneRec
    /\ c_ret = NoneRec
    \* the variables of the other state machines are not used
    /\ r_image = None /\ r_pc = "off" /\ r_tries = 0 /\ r_delay = 0
    /\ r_outcomes = <<>> /\ r_sleeps = <<>> /\ r_result = None
    /\ e_fs = <<>> /\ e_pc = "off" /\ e_args = NoneRec /\ e_dl = <<>>
    /\ e_issued = {} /\ e_out = NoneRec /\ e_calls = 0 /\ e_hist = <<>>
    /\ s_year = 0 /\ s_ret = None /\ s_pc = "off" /\ s_para_vals = <<>>
    /\ s_daily = <<>> /\ s_df = <<>>
    /\ j_req = None /\ j_links = <<>> /\ j_listing = <<>> /\ j_pc = "off"
    /\ j_link_url = None /\ j_requests = <<>> /\ j_ret = None

\* A faulty variant: a local file of any size counts.
LocalExists_AnySize(a, local) ==
    \E f \in local : f[2] = a.year /\ f[3] = Fmt2(a.lon) /\ f[4] = Fmt2(a.lat)

\* if Path(ensemble_fname).exists(): return np.load(ensemble_fname, ...)
LocalExists(a, local) ==
    ensemble_fname(a.year, a.lat, a.lon, a.en_size) \in local

CheckLocal ==
    /\ c_pc = "local"
    /\ IF LocalExists(c_args, c_env.local)
         THEN /\ c_events' = Append(c_events, "np.load")
              /\ c_ret' = LocalData(ensemble_fname(c_args.year, c_args.lat,
                                                   c_args.lon, c_args.en_size))
              /\ c_pc' = "done"
         ELSE /\ c_pc' = "jasmin"
              /\ UNCHANGED <<c_events, c_ret>>
    /\ UNCHANGED <<c_args, c_env, c_z_start, c_ens, c_w, c_file, c_results,
                   c_retval>>
    /\ UNCHANGED not_Ensemble

\* retval = get_ensemble_jasmin(year, lat, lon); if retval is not None: return retval
Jasmin ==
    /\ c_pc = "jasmin"
    /\ LET r == get_ensemble_jasmin(c_env.listing, c_args.year, c_args.lat,
                                    c_args.lon)
       IN  /\ c_retval' = r
           /\ c_events' = c_events \o
                 (IF r.kind = "data" THEN << "GET listing", "GET link" >>
                                     ELSE << "GET listing" >>)
           /\ c_pc' = CASE r.kind = "raise" -> "raised"
                        [] r.kind = "data" -> "done"
                        [] OTHER -> "meteo"
           /\ c_ret' = IF r.kind = "data" THEN r ELSE c_ret
    /\ UNCHANGED <<c_args, c_env, c_z_start, c_ens, c_w, c_file, c_results>>
    /\ UNCHANGED not_Ensemble

\* meteo_file = get_era5_gee(year, lat, lon, dest_folder="./"): the cached
\* csv, or the seven downloads, which succeed (the csv is written) or raise.
Meteo(ok) ==
    /\ c_pc = "meteo"
    /\ IF c_env.csv
         THEN /\ ok
              /\ c_pc' = "sample"
              /\ UNCHANGED <<c_events, c_env>>
         ELSE /\ c_events' = Append(c_events, "download weather")
              /\ c_pc' = IF ok THEN "sample" ELSE "raised"
              /\ c_env' = [c_env EXCEPT !.csv = ok]
    /\ UNCHANGED <<c_args, c_z_start, c_ens, c_w, c_file, c_results, c_retval,
                   c_ret>>
    /\ UNCHANGED not_Ensemble

\* A faulty variant: every parameter of the table is put in dd.
dd_AllParameters(z, table, i) ==
    [ k \in Range(param_list) \cup {"AMAXTB"} |->
        IF k = "AMAXTB"
          THEN << 0, z["AMAXTB_000"][i], 125, z["AMAXTB_000"][i], 150,
                  z["AMAXTB_150"][i] >>
          ELSE z[k][i] ]

\* dd of member i: the 'S' parameters with z_start[j, i], and AMAXTB.
dd(z, table, i) ==
    [ k \in {q \in Range(param_list) : table.param_type[q] = "S"} \cup {"AMAXTB"} |->
        IF k = "AMAXTB"
          THEN << 0, z["AMAXTB_000"][i], 125, z["AMAXTB_000"][i], 150,
                  z["AMAXTB_150"][i] >>
          ELSE z[k][i] ]

WorkerStart ==
    [pc |-> "start", overrides |-> <<>>, crop_start_date |-> 0,
     crop_end_date |-> 0]

\* define_prior_distribution, z_start, ensemble_parameters and the call of
\* process_map, which hands every parameter set to a worker process.  Every
\* row of the table has a prior (uniform or truncated normal), so each
\* z_start[j, :] is rvs(en_size) * param_scale.
Sample ==
    /\ c_pc = "sample"
    /\ \E tdwi \in [1 .. c_args.en_size -> Draws("TDWI")],
          sdoy \in [1 .. c_args.en_size -> Draws("SDOY")],
          a000 \in [1 .. c_args.en_size -> Draws("AMAXTB_000")],
          a150 \in [1 .. c_args.en_size -> Draws("AMAXTB_150")],
          span \in [1 .. c_args.en_size -> Draws("SPAN")] :
          LET draw == [TDWI |-> tdwi, SDOY |-> sdoy, AMAXTB_000 |-> a000,
                       AMAXTB_150 |-> a150, SPAN |-> span]
          IN  c_z_start' = [q \in Range(param_list) |->
                              [i \in 1 .. c_args.en_size |->
                                 draw[q][i] * c_env.table.param_scale[q]]]
    /\ c_ens' = [i \in 1 .. c_args.en_size |-> dd(c_z_start', c_env.table, i)]
    /\ c_w' = [i \in 1 .. c_args.en_size |-> WorkerStart]
    /\ c_results' = [i \in 1 .. c_args.en_size |-> NoneRec]
    /\ c_events' = Append(c_events, "process_map")
    /\ c_pc' = "map"
    /\ UNCHANGED <<c_args, c_env, c_file, c_retval, c_ret>>
    /\ UNCHANGED not_Ensemble

\* int(np.round(x)), x in tenths: the nearest integer, ties to even.
np_round(x) ==
    LET lo == x \div 10
        r == x - 10 * lo
    IN  IF r < 5 THEN lo
        ELSE IF r > 5 THEN lo + 1
        ELSE IF lo % 2 = 0 THEN lo ELSE lo + 1

\* dt.datetime.strptime(f"{year}/{sowing_doy}", "%Y/%j").date(), as YYYYMMDD
strptime_Yj(year, doy) == Ymd(year, doy)

\* ens_parameters without the key SDOY (after ens_parameters.pop("SDOY"))
popped(ens_parameters) ==
    [k \in DOMAIN ens_parameters \ {"SDOY"} |-> ens_parameters[k]]

\* agromanagement_contents.format(...): the crop calendar written to the file
agromanagement_contents(year, crop_start_date, crop_end_date) ==
    [kind |-> "amgt", year |-> year, crop_start_date |-> crop_start_date,
     crop_end_date |-> crop_end_date]

\* The crop calendar of a parameter set for a year.
CropCalendar(year, ens_parameters) ==
    agromanagement_contents(year,
        strptime_Yj(year, np_round(ens_parameters["SDOY"])),
        year * 10000 + 1130)

\* wofost_parameter_sweep_func up to open("data/temporal.amgt", "w"): the
\* overrides are set, the dates computed, and the file is truncated.
WorkerOpen(i) ==
    /\ c_pc = "map"
    /\ c_w[i].pc = "start"
    /\ "SDOY" \in DOMAIN c_ens[i]
    /\ LET cal == CropCalendar(c_args.year, c_ens[i])
       IN  c_w' = [c_w EXCEPT ![i] =
                     [pc |-> "opened", overrides |-> popped(c_ens[i]),
                      crop_start_date |-> cal.crop_start_date,
                      crop_end_date |-> cal.crop_end_date]]
    /\ c_file' = [kind |-> "empty"]
    /\ UNCHANGED <<c_args, c_env, c_pc, c_events, c_z_start, c_ens, c_results,
                   c_retval, c_ret>>
    /\ UNCHANGED not_Ensemble

\* fp.write(...) and the end of the with block: the text reaches the file.
WorkerWrite(i) ==
    /\ c_pc = "map"
    /\ c_w[i].pc = "opened"
    /\ c_file' = agromanagement_contents(c_args.year, c_w[i].crop_start_date,
                                         c_w[i].crop_end_date)
    /\ c_w' = [c_w EXCEPT ![i].pc = "written"]
    /\ UNCHANGED <<c_args, c_env, c_pc, c_events, c_z_start, c_ens, c_results,
                   c_retval, c_ret>>
    /\ UNCHANGED not_Ensemble

\* agromanagement = YAMLAgroManagementReader(...); run_wofost(...); the
\* result is the simulation of the overrides under the calendar read.  An
\* empty file has no AgroManagement entry: the reader raises.
WorkerRun(i) ==
    /\ c_pc = "map"
    /\ c_w[i].pc = "written"
    /\ LET agro == c_file
       IN  IF agro.kind = "amgt"
             THEN /\ c_results' = [c_results EXCEPT ![i] =
                        [kind |-> "result", overrides |-> c_w[i].overrides,
                         agromanagement |-> agro]]
                  /\ c_w' = [c_w EXCEPT ![i].pc = "done"]
             ELSE /\ c_w' = [c_w EXCEPT ![i].pc = "raised"]
                  /\ UNCHANGED c_results
    /\ UNCHANGED <<c_args, c_env, c_pc, c_events, c_z_start, c_ens, c_file,
                   c_retval, c_ret>>
    /\ UNCHANGED not_Ensemble

\* process_map returns the workers' results in the order of
\* ensemble_parameters, or re-raises a worker's error.
Collect ==
    /\ c_pc = "map"
    /\ \A i \in DOMAIN c_w : c_w[i].pc \in {"done", "raised"}
    /\ IF \E i \in DOMAIN c_w : c_w[i].pc = "raised"
         THEN /\ c_pc' = "raised"
              /\ UNCHANGED c_ret
         ELSE /\ c_pc' = "done"
              /\ c_ret' = [kind |-> "data", source |-> "fresh",
                           results |-> c_results,
                           size |-> Len(c_results)]
    /\ UNCHANGED <<c_args, c_env, c_events, c_z_start, c_ens, c_w, c_file,
                   c_results, c_retval>>
    /\ UNCHANGED not_Ensemble

NextEnsemble ==
    \/ CheckLocal
    \/ Jasmin
    \/ \E ok \in BOOLEAN : Meteo(ok)
    \/ Sample
    \/ \E i \in DOMAIN c_w : WorkerOpen(i)
    \/ \E i \in DOMAIN c_w : WorkerWrite(i)
    \/ \E i \in DOMAIN c_w : WorkerRun(i)
    \/ Collect

SpecEnsemble == InitEnsemble /\ [][NextEnsemble]_vars

\* The local file create_ensemble looks for.
LocalHit ==
    ensemble_fname(c_args.year, c_args.lat, c_args.lon, c_args.en_size)
       \in c_env.local

Fresh == c_pc = "done" /\ c_ret.kind = "data" /\ c_ret.source = "fresh"

\* C1: create_ensemble resolves the ensemble from exactly one source, in a
\* fixed order: the local file when it exists (nothing else is done); else
\* the remote ensemble when get_ensemble_jasmin returns one (no weather
\* download, no simulation); weather is fetched and simulations run only
\* when both look-ups miss.
C1_SourceOrder ==
    /\ LocalHit /\ c_pc # "local" =>
          /\ c_pc = "done"
          /\ c_events = << "np.load" >>
          /\ c_ret.source = "local"
          /\ c_ret.name = ensemble_fname(c_args.year, c_args.lat, c_args.lon,
                                         c_args.en_size)
          /\ c_w = <<>>
    /\ ~LocalHit /\ c_retval.kind = "data" =>
          /\ c_pc = "done"
          /\ c_events = << "GET listing", "GET link" >>
          /\ c_ret = c_retval
          /\ c_w = <<>>
    /\ c_pc \in {"meteo", "sample", "map"} \/ c_w # <<>>
          \/ "download weather" \in Range(c_events)
          \/ "process_map" \in Range(c_events) =>
          /\ ~LocalHit
          /\ c_events[1] = "GET listing"
          /\ c_retval = NoneRec
          /\ "np.load" \notin Range(c_events)
          /\ "GET link" \notin Range(c_events)
    /\ Fresh => c_events \in { << "GET listing", "process_map" >>,
                               << "GET listing", "download weather",
                                  "process_map" >> }
    /\ c_pc = "done" =>
          /\ c_ret.source \in {"local", "remote", "fresh"}
          /\ c_ret.source = "local" <=> LocalHit
          /\ c_ret.source = "remote" <=> (~LocalHit /\ c_retval.kind = "data")
          /\ c_ret.source = "fresh" <=> (~LocalHit /\ c_retval = NoneRec)

\* Reached: a file of another size is on disk and the listing has no link
\* for the year, so both look-ups miss: the weather is downloaded and the
\* simulations run.
C1_Witness ==
    /\ Fresh
    /\ c_env.local # {}
    /\ Len(c_env.listing) = 2
    /\ c_events = << "GET listing", "download weather", "process_map" >>

\* What the simulation of a parameter set returns: its overrides, run
\* under its own crop calendar.
Simulation(year, ens_parameters) ==
    [kind |-> "result", overrides |-> popped(ens_parameters),
     agromanagement |-> CropCalendar(year, ens_parameters)]

\* C3: a fresh ensemble of en_size = n builds n parameter sets and returns
\* a list of n results, the i-th being the output of the simulation run on
\* the i-th parameter set.
C3_ResultsInOrder ==
    Fresh =>
       /\ Len(c_ens) = c_args.en_size
       /\ Len(c_ret.results) = c_args.en_size
       /\ \A i \in 1 .. c_args.en_size :
             c_ret.results[i] = Simulation(c_args.year, c_ens[i])

\* The part of C3 that is about the order alone: n parameter sets, n
\* results, the i-th carrying the overrides of the i-th parameter set.
C3_OverridesInOrder ==
    Fresh =>
       /\ Len(c_ens) = c_args.en_size
       /\ Len(c_ret.results) = c_args.en_size
       /\ \A i \in 1 .. c_args.en_size :
             c_ret.results[i].overrides = popped(c_ens[i])

\* C7: the parameter set of member i holds exactly the parameters of
\* Variation type 'S', each with member i's own value, and AMAXTB =
\* [0, a000, 1.25, a000, 1.5, a150] of member i; the worker removes SDOY,
\* applies every other entry as an override, starts the crop on day
\* round(SDOY) of the year and ends it on 30 November.
C7_ParameterSets ==
    c_pc \in {"map", "done", "raised"} /\ c_ens # <<>> =>
       /\ Len(c_ens) = c_args.en_size
       /\ \A i \in DOMAIN c_ens :
             /\ DOMAIN c_ens[i] =
                   {q \in Range(param_list) : c_env.table.param_type[q] = "S"}
                      \cup {"AMAXTB"}
             /\ \A q \in DOMAIN c_ens[i] \ {"AMAXTB"} :
                   c_ens[i][q] = c_z_start[q][i]
             /\ c_ens[i]["AMAXTB"] =
                   << 0, c_z_start["AMAXTB_000"][i], 125,
                      c_z_start["AMAXTB_000"][i], 150,
                      c_z_start["AMAXTB_150"][i] >>
             /\ c_w[i].pc # "start" =>
                   /\ DOMAIN c_w[i].overrides = DOMAIN c_ens[i] \ {"SDOY"}
                   /\ \A q \in DOMAIN c_w[i].overrides :
                         c_w[i].overrides[q] = c_ens[i][q]
                   /\ c_w[i].crop_end_date = c_args.year * 10000 + 1130
                   /\ c_w[i].crop_start_date =
                         ( CASE c_z_start["SDOY"][i] = 600 ->
                                  IF c_args.year = 2020 THEN 20200229
                                                        ELSE 20210301
                             [] c_z_start["SDOY"][i] \in {1215, 1225} ->
                                  IF c_args.year = 2020 THEN 20200501
                                                        ELSE 20210502 )

\* Reached: two members with different sowing days, both prepared; the
\* half-way value 121.5 was rounded to day 122.
C7_Witness ==
    /\ c_pc = "map"
    /\ Len(c_ens) = 2
    /\ c_ens[1]["SDOY"] = 1215 /\ c_ens[2]["SDOY"] = 600
    /\ c_w[1].pc = "opened" /\ c_w[2].pc = "written"
    /\ c_w[1].crop_start_date = 20210502
    /\ "SPAN" \in DOMAIN c_w[1].overrides

\* C8: every member's simulation uses the crop calendar derived from that
\* member's own SDOY, under every interleaving of the workers on
\* data/temporal.amgt.
C8_OwnCropCalendar ==
    c_pc \in {"map", "done", "raised"} =>
       \A i \in DOMAIN c_w :
          c_w[i].pc = "done" =>
             c_results[i].agromanagement = CropCalendar(c_args.year, c_ens[i])

\* C9: every create_ensemble(lat, lon, year, en_size = n) that returns an
\* ensemble returns one of size n, whichever source it came from.
C9_ReturnedSize ==
    c_pc = "done" => c_ret.size = c_args.en_size

====
